---- MODULE Spec2Model ----
(***************************************************************************)
(* The worker fan-out demo (src/unnamed/part_004): the main thread spawns  *)
(* worker threads running the same file, then installs a repeating timer;  *)
(* each worker prints a line and spins forever.                            *)
(*                                                                         *)
(* The loop bound of the source is the literal 8.  The model carries it as *)
(* the value workerCount, fixed at initialisation: Init8 gives it the      *)
(* source's value, Init a value of 1..MaxWorkerCount.                      *)
(***************************************************************************)
EXTENDS Integers, Sequences, FiniteSets, TLC

\* ---------------------------------------------------------------- bounds
MaxWorkerCount == 3
MaxTicks == 2
WindowStep == 250
ClockStep == 500
Horizon8 == 1
MaxStrLen == 2

\* ------------------------------------------------------ program constants
DemoWorkerCount == 8
Period == 1000

\* invocations of the script (processes): the first and a second one
Runs == {1, 2}

VARIABLES
    workerCount,  \* the bound of the spawn loop
    pc,           \* pc[r]: position of the main thread of invocation r
    i,            \* i[r]: the loop variable of the spawn loop
    workers,      \* workers[r]: the Workers created, in creation order
    timer,        \* timer[r]: state of the setInterval timer
    log,          \* log[r]: the console lines written, oldest first
    now,          \* now[r]: event-loop time elapsed since setInterval was called
    nextFire,     \* nextFire[r]: time at which the timer is due next
    tickAt,       \* tickAt[r]: the times at which the timer callback ran
    variant,      \* the file whose script of object demonstrations runs
    ppc,          \* the statement of that script to run next
    arg,          \* the values the script is run with
    heap,         \* the objects the script has created, by name
    out           \* what the script has printed or been returned, oldest first

workerVars == <<workerCount, pc, i, workers, timer, log, now, nextFire, tickAt>>

objVars == <<variant, ppc, arg, heap, out>>

vars == <<workerCount, pc, i, workers, timer, log, now, nextFire, tickAt,
          variant, ppc, arg, heap, out>>

Min(a, b) == IF a <= b THEN a ELSE b

\* console.log(...args): one line holding the arguments
ConsoleLog(r, args) == log' = [log EXCEPT ![r] = Append(@, args)]

StartedLine(d) == <<"Started: ", d>>
AliveLine == <<"Still alive!">>

\* the lines of log[r] equal to line
CountLines(r, line) == Cardinality({n \in 1..Len(log[r]) : log[r][n] = line})
AliveCount(r) == CountLines(r, AliveLine)

\* no object demonstration runs beside the worker demo
NoScript ==
    /\ variant = "part_004"
    /\ ppc = 0
    /\ arg = <<>>
    /\ heap = <<>>
    /\ out = <<>>

WorkersAt(N) ==
    /\ workerCount = N
    /\ pc = [r \in Runs |-> IF r = 1 THEN "loop" ELSE "off"]
    /\ i = [r \in Runs |-> 0]
    /\ workers = [r \in Runs |-> <<>>]
    /\ timer = [r \in Runs |-> "Idle"]
    /\ log = [r \in Runs |-> <<>>]
    /\ now = [r \in Runs |-> 0]
    /\ nextFire = [r \in Runs |-> 0]
    /\ tickAt = [r \in Runs |-> <<>>]

InitWith(N) == WorkersAt(N) /\ NoScript

Init == \E N \in 1..MaxWorkerCount : InitWith(N)

Init8 == InitWith(DemoWorkerCount)

\* ---------------------------------------------------------------- actions

\* `node <file>` once more: another process starts at the top of the script
Launch(r) ==
    /\ pc[r] = "off"
    /\ pc' = [pc EXCEPT ![r] = "loop"]
    /\ i' = [i EXCEPT ![r] = 0]
    /\ UNCHANGED <<workerCount, workers, timer, log, now, nextFire, tickAt>>
    /\ UNCHANGED objVars

\* variants of SpawnWorker: every Worker is handed the same workerData; the
\* loop test is i <= workerCount; the identifiers go on counting across
\* invocations
SpawnWorkerSameData(r) ==
    /\ pc[r] = "loop"
    /\ i[r] < workerCount
    /\ workers' = [workers EXCEPT ![r] =
                      Append(@, [workerData |-> 0, state |-> "Spawning"])]
    /\ i' = [i EXCEPT ![r] = @ + 1]
    /\ UNCHANGED <<workerCount, pc, timer, log, now, nextFire, tickAt>>
    /\ UNCHANGED objVars

SpawnWorkerOffByOne(r) ==
    /\ pc[r] = "loop"
    /\ i[r] <= workerCount
    /\ workers' = [workers EXCEPT ![r] =
                      Append(@, [workerData |-> i[r], state |-> "Spawning"])]
    /\ i' = [i EXCEPT ![r] = @ + 1]
    /\ UNCHANGED <<workerCount, pc, timer, log, now, nextFire, tickAt>>
    /\ UNCHANGED objVars

SpawnWorkerGlobalIds(r) ==
    /\ pc[r] = "loop"
    /\ i[r] < workerCount
    /\ workers' = [workers EXCEPT ![r] =
                      Append(@, [workerData |-> i[r] + (r - 1) * workerCount,
                                 state |-> "Spawning"])]
    /\ i' = [i EXCEPT ![r] = @ + 1]
    /\ UNCHANGED <<workerCount, pc, timer, log, now, nextFire, tickAt>>
    /\ UNCHANGED objVars

\* one iteration of the for loop: new Worker(__filename, { workerData: i }); ++i
SpawnWorker(r) ==
    /\ pc[r] = "loop"
    /\ i[r] < workerCount
    /\ workers' = [workers EXCEPT ![r] =
                      Append(@, [workerData |-> i[r], state |-> "Spawning"])]
    /\ i' = [i EXCEPT ![r] = @ + 1]
    /\ UNCHANGED <<workerCount, pc, timer, log, now, nextFire, tickAt>>
    /\ UNCHANGED objVars

\* variant of InstallTimer: the timer is installed before the loop is through
InstallTimerEarly(r) ==
    /\ pc[r] = "loop"
    /\ timer' = [timer EXCEPT ![r] = "Ticking"]
    /\ nextFire' = [nextFire EXCEPT ![r] = now[r] + Period]
    /\ pc' = [pc EXCEPT ![r] = "done"]
    /\ UNCHANGED <<workerCount, i, workers, log, now, tickAt>>
    /\ UNCHANGED objVars

\* the loop is left; setInterval((a) => console.log(a), 1000, 'Still alive!')
InstallTimer(r) ==
    /\ pc[r] = "loop"
    /\ ~(i[r] < workerCount)
    /\ timer' = [timer EXCEPT ![r] = "Ticking"]
    /\ nextFire' = [nextFire EXCEPT ![r] = now[r] + Period]
    /\ pc' = [pc EXCEPT ![r] = "done"]
    /\ UNCHANGED <<workerCount, i, workers, log, now, tickAt>>
    /\ UNCHANGED objVars

\* variants of WorkerStart: the worker prints nothing; the workers begin in
\* the order they were created
WorkerStartSilent(r, k) ==
    /\ k \in 1..Len(workers[r])
    /\ workers[r][k].state = "Spawning"
    /\ workers' = [workers EXCEPT ![r][k].state = "Running"]
    /\ UNCHANGED <<workerCount, pc, i, timer, log, now, nextFire, tickAt>>
    /\ UNCHANGED objVars

WorkerStartInOrder(r, k) ==
    /\ k \in 1..Len(workers[r])
    /\ workers[r][k].state = "Spawning"
    /\ \A j \in 1..(k - 1) : workers[r][j].state = "Running"
    /\ ConsoleLog(r, StartedLine(workers[r][k].workerData))
    /\ workers' = [workers EXCEPT ![r][k].state = "Running"]
    /\ UNCHANGED <<workerCount, pc, i, timer, now, nextFire, tickAt>>
    /\ UNCHANGED objVars

\* further variant of WorkerStart: the workers count themselves in the main
\* thread's loop variable, as if memory were shared between the threads
WorkerStartSharesCounter(r, k) ==
    /\ k \in 1..Len(workers[r])
    /\ workers[r][k].state = "Spawning"
    /\ ConsoleLog(r, StartedLine(workers[r][k].workerData))
    /\ workers' = [workers EXCEPT ![r][k].state = "Running"]
    /\ i' = [i EXCEPT ![r] = @ + 1]
    /\ UNCHANGED <<workerCount, pc, timer, now, nextFire, tickAt>>
    /\ UNCHANGED objVars

\* the worker thread begins the script: console.log('Started: ', workerData)
WorkerStart(r, k) ==
    /\ k \in 1..Len(workers[r])
    /\ workers[r][k].state = "Spawning"
    /\ ConsoleLog(r, StartedLine(workers[r][k].workerData))
    /\ workers' = [workers EXCEPT ![r][k].state = "Running"]
    /\ UNCHANGED <<workerCount, pc, i, timer, now, nextFire, tickAt>>
    /\ UNCHANGED objVars

\* variant of WorkerLoop: the loop is left and the worker thread exits
WorkerLoopEnds(r, k) ==
    /\ k \in 1..Len(workers[r])
    /\ workers[r][k].state = "Running"
    /\ workers' = [workers EXCEPT ![r][k].state = "Terminated"]
    /\ UNCHANGED <<workerCount, pc, i, timer, log, now, nextFire, tickAt>>
    /\ UNCHANGED objVars

\* further variant of WorkerLoop: the value drawn is printed
WorkerLoopLogs(r, k) ==
    /\ k \in 1..Len(workers[r])
    /\ workers[r][k].state = "Running"
    /\ Len(log[r]) < workerCount + MaxTicks + 1
    /\ ConsoleLog(r, <<"random">>)
    /\ UNCHANGED <<workerCount, pc, i, workers, timer, now, nextFire, tickAt>>
    /\ UNCHANGED objVars

\* while (true) { Math.random(); }: the value is dropped, the loop goes on
WorkerLoop(r, k) ==
    /\ k \in 1..Len(workers[r])
    /\ workers[r][k].state = "Running"
    /\ UNCHANGED vars

\* variants of TimerTick: a one-shot timer (setTimeout); a callback that
\* waits for the workers to yield; a timer armed again two periods later
TimerTickOnce(r) ==
    /\ timer[r] = "Ticking"
    /\ now[r] = nextFire[r]
    /\ AliveCount(r) < MaxTicks
    /\ ConsoleLog(r, AliveLine)
    /\ timer' = [timer EXCEPT ![r] = "Idle"]
    /\ tickAt' = [tickAt EXCEPT ![r] = Append(@, now[r])]
    /\ UNCHANGED <<workerCount, pc, i, workers, now, nextFire>>
    /\ UNCHANGED objVars

TimerTickBlocked(r) ==
    /\ timer[r] = "Ticking"
    /\ now[r] = nextFire[r]
    /\ AliveCount(r) < MaxTicks
    /\ \A k \in 1..Len(workers[r]) : workers[r][k].state # "Running"
    /\ ConsoleLog(r, AliveLine)
    /\ nextFire' = [nextFire EXCEPT ![r] = @ + Period]
    /\ tickAt' = [tickAt EXCEPT ![r] = Append(@, now[r])]
    /\ UNCHANGED <<workerCount, pc, i, workers, timer, now>>
    /\ UNCHANGED objVars

TimerTickSkips(r) ==
    /\ timer[r] = "Ticking"
    /\ now[r] = nextFire[r]
    /\ AliveCount(r) < MaxTicks
    /\ ConsoleLog(r, AliveLine)
    /\ nextFire' = [nextFire EXCEPT ![r] = @ + 2 * Period]
    /\ tickAt' = [tickAt EXCEPT ![r] = Append(@, now[r])]
    /\ UNCHANGED <<workerCount, pc, i, workers, timer, now>>
    /\ UNCHANGED objVars

\* the timer is due: (a) => console.log(a) runs with 'Still alive!', and the
\* timer is armed again one period later
TimerTick(r) ==
    /\ timer[r] = "Ticking"
    /\ now[r] = nextFire[r]
    /\ AliveCount(r) < MaxTicks
    /\ ConsoleLog(r, AliveLine)
    /\ nextFire' = [nextFire EXCEPT ![r] = @ + Period]
    /\ tickAt' = [tickAt EXCEPT ![r] = Append(@, now[r])]
    /\ UNCHANGED <<workerCount, pc, i, workers, timer, now>>
    /\ UNCHANGED objVars

\* time passes on the idle main thread, up to the moment the timer is due
AdvanceClock(r) ==
    /\ timer[r] = "Ticking"
    /\ now[r] < nextFire[r]
    /\ AliveCount(r) < MaxTicks
    /\ now' = [now EXCEPT ![r] = Min(@ + ClockStep, nextFire[r])]
    /\ UNCHANGED <<workerCount, pc, i, workers, timer, log, nextFire, tickAt>>
    /\ UNCHANGED objVars

Coordinator(r) == SpawnWorker(r) \/ InstallTimer(r) \/ TimerTick(r) \/ AdvanceClock(r)

Worker(r, k) == WorkerStart(r, k) \/ WorkerLoop(r, k)

Next ==
    \E r \in Runs :
        \/ SpawnWorker(r)
        \/ InstallTimer(r)
        \/ TimerTick(r)
        \/ AdvanceClock(r)
        \/ \E k \in 1..workerCount : WorkerStart(r, k)
        \/ \E k \in 1..workerCount : WorkerLoop(r, k)

NextTwice == Next \/ \E r \in Runs : Launch(r)

Spec == Init /\ [][Next]_vars

\* the source's configuration, observed for Horizon8 periods of the timer
Next8 == Next /\ now[1]' <= Horizon8 * Period

Spec8 == Init8 /\ [][Next8]_vars

SpecTwice == Init /\ [][NextTwice]_vars

\* the main thread's event loop runs whatever it has to run
CoordFairSpec == Spec /\ \A r \in Runs : WF_vars(Coordinator(r))

\* and so does every worker thread
FairSpec ==
    /\ CoordFairSpec
    /\ \A r \in Runs : \A k \in 1..MaxWorkerCount : WF_vars(Worker(r, k))

\* ------------------------------------------------ objects and prototypes
\* (src/new-operator-and-prototype-chaining.js and src/unnamed/part_001)

JsFile == "new-operator-and-prototype-chaining.js"
Part1File == "part_001"
ProtoFiles == {JsFile, Part1File}

\* values: strings (by character), functions (by name), undefined
Chars == {"a", "b"}
Strings == UNION {[1..n -> Chars] : n \in 0..MaxStrLen}
Str(chars) == <<"str">> \o chars
Fn(name) == <<"fn", name>>
Undefined == <<"undefined">>
Fixed == Str(<<"f", "i", "x", "e", "d">>)

\* s.split('').reverse().join('')
SplitReverseJoin(s) ==
    <<"str">> \o [n \in 1..(Len(s) - 1) |-> s[Len(s) + 1 - n]]

\* an object: its __proto__ (the name of an object, or "null") and its own
\* properties
NoProps == [n \in {} |-> Undefined]
Obj(proto, props) == [proto |-> proto, props |-> props]
WithProp(props, name, v) ==
    [n \in (DOMAIN props) \cup {name} |-> IF n = name THEN v ELSE props[n]]

Alloc(h, id, o) == [n \in (DOMAIN h) \cup {id} |-> IF n = id THEN o ELSE h[n]]
SetProp(h, id, name, v) == [h EXCEPT ![id].props = WithProp(h[id].props, name, v)]
SetProto(h, id, proto) == [h EXCEPT ![id].proto = proto]
HasOwn(h, id, name) == name \in DOMAIN h[id].props

\* property lookup: the object itself, then its __proto__, and so on
RECURSIVE Owner(_, _, _)
Owner(h, id, name) ==
    IF id = "null" THEN "null"
    ELSE IF HasOwn(h, id, name) THEN id
    ELSE Owner(h, h[id].proto, name)

Get(h, id, name) ==
    IF Owner(h, id, name) = "null" THEN Undefined
    ELSE h[Owner(h, id, name)].props[name]

\* F.prototype of the functions of the scripts
Prototype(f) ==
    CASE f = "Object" -> "Object.prototype"
      [] f = "MyConstructor" -> "MyConstructor.prototype"
      [] f = "MyChildConstructor" -> "MyChildConstructor.prototype"

\* the objects there are when the script begins: function declarations are
\* hoisted, and each comes with a prototype holding `constructor`
BuiltIns ==
    [n \in {"Object.prototype", "MyConstructor.prototype",
            "MyChildConstructor.prototype"} |->
        CASE n = "Object.prototype" ->
                 Obj("null", WithProp(NoProps, "constructor", Fn("Object")))
          [] n = "MyConstructor.prototype" ->
                 Obj("Object.prototype",
                     WithProp(NoProps, "constructor", Fn("MyConstructor")))
          [] n = "MyChildConstructor.prototype" ->
                 Obj("Object.prototype",
                     WithProp(NoProps, "constructor", Fn("MyChildConstructor")))]

\* function MyConstructor(passed) { this.myFixedProperty = 'fixed';
\*                                  this.myPassedProperty = passed; }
MyConstructor(h, this, passed) ==
    SetProp(SetProp(h, this, "myFixedProperty", Fixed),
            this, "myPassedProperty", passed)

\* the heap after f has run with `this` and the arguments args
RECURSIVE Invoke(_, _, _, _)
Invoke(f, h, this, args) ==
    CASE f = "MyConstructor" -> MyConstructor(h, this, args[1])
      [] f = "MyChildConstructor" -> Invoke("MyConstructor", h, this, <<args[1]>>)
      [] OTHER -> h

\* f.apply(this, [a, ...]) and f.call(this, a, ...)
FnApply(f, h, this, argArray) == Invoke(f, h, this, argArray)
FnCall(f, h, this, a) == Invoke(f, h, this, <<a>>)

\* new F(a): a fresh object whose __proto__ is F.prototype, then F runs on it
New(h, id, f, a) == Invoke(f, Alloc(h, id, Obj(Prototype(f), NoProps)), id, <<a>>)

\* Object.create(proto) and the object literal { ... }
ObjectCreate(h, id, proto) == Alloc(h, id, Obj(proto, NoProps))
ObjectLiteral(h, id, props) == Alloc(h, id, Obj("Object.prototype", props))

\* the names the two files give to the same things
GetterName == IF variant = JsFile THEN "variablesAsArray" ELSE "getVariablesAsArray"
ReverserName ==
    IF variant = JsFile THEN "variablesReversedAsArray" ELSE "getVariablesReversedAsArray"
ChildInstance == IF variant = JsFile THEN "myNotInstance" ELSE "lastOne"
ContextObject == IF variant = JsFile THEN "theThisContext" ELSE "theContext"

\* what the function value fn returns when run with `this`
Return(fn, h, this) ==
    CASE fn \in {Fn("variablesAsArray"), Fn("getVariablesAsArray")} ->
             <<Get(h, this, "myFixedProperty"), Get(h, this, "myPassedProperty")>>
      [] fn \in {Fn("variablesReversedAsArray"), Fn("getVariablesReversedAsArray")} ->
             <<SplitReverseJoin(Get(h, this, "myFixedProperty")),
               SplitReverseJoin(Get(h, this, "myPassedProperty"))>>
      [] OTHER -> Undefined

\* o.m(): m is looked up from o and run with o as `this`
CallMethod(h, id, name) == Return(Get(h, id, name), h, id)

\* one statement of the script: the heap becomes h, the lines are printed
Statement(n, h, lines) ==
    /\ variant \in ProtoFiles
    /\ ppc = n
    /\ ppc' = n + 1
    /\ heap' = h
    /\ out' = out \o lines
    /\ UNCHANGED <<variant, arg>>
    /\ UNCHANGED workerVars

\* const myInstanceWithNew = new MyConstructor('passed')
NewMyConstructor ==
    Statement(1, New(heap, "myInstanceWithNew", "MyConstructor", arg), <<>>)

\* const myInstanceWithoutNew = {}
EmptyLiteral ==
    Statement(2, ObjectLiteral(heap, "myInstanceWithoutNew", NoProps), <<>>)

\* myInstanceWithoutNew.__proto__ = MyConstructor.prototype
SetProtoOfLiteral ==
    Statement(3, SetProto(heap, "myInstanceWithoutNew", Prototype("MyConstructor")), <<>>)

\* MyConstructor.apply(myInstanceWithoutNew, ['passed'])
ApplyConstructor ==
    Statement(4, FnApply("MyConstructor", heap, "myInstanceWithoutNew", <<arg>>), <<>>)

\* variant of CreateFromPrototype: a plain empty object is created
CreatePlainObject ==
    Statement(5, ObjectLiteral(heap, "myInstanceWithoutNew2", NoProps), <<>>)

\* const myInstanceWithoutNew2 = Object.create(MyConstructor.prototype)
CreateFromPrototype ==
    Statement(5, ObjectCreate(heap, "myInstanceWithoutNew2", Prototype("MyConstructor")),
              <<>>)

\* MyConstructor.call(myInstanceWithoutNew2, 'passed')
CallConstructor ==
    Statement(6, FnCall("MyConstructor", heap, "myInstanceWithoutNew2", arg), <<>>)

\* MyConstructor.prototype.variablesAsArray = function() { ... }
DefineGetter ==
    Statement(7, SetProp(heap, Prototype("MyConstructor"), GetterName, Fn(GetterName)),
              <<>>)

\* MyChildConstructor.prototype.__proto__ = MyConstructor.prototype, and in
\* part_001: ... = Object.create(MyConstructor.prototype)
ChainPrototypes ==
    Statement(8,
        IF variant = JsFile
        THEN SetProto(heap, Prototype("MyChildConstructor"), Prototype("MyConstructor"))
        ELSE SetProto(ObjectCreate(heap, "anonymous", Prototype("MyConstructor")),
                      Prototype("MyChildConstructor"), "anonymous"),
        <<>>)

\* MyChildConstructor.prototype.variablesReversedAsArray = function() { ... }
DefineReverser ==
    Statement(9,
        SetProp(heap, Prototype("MyChildConstructor"), ReverserName, Fn(ReverserName)),
        <<>>)

\* const lastOne = new MyChildConstructor('passed')
NewChild ==
    Statement(10, New(heap, ChildInstance, "MyChildConstructor", arg), <<>>)

\* console.log(lastOne.getVariablesAsArray());
\* console.log(lastOne.getVariablesReversedAsArray())
CallOnInstance ==
    Statement(11, heap,
        <<CallMethod(heap, ChildInstance, GetterName),
          CallMethod(heap, ChildInstance, ReverserName)>>)

\* console.log(lastOne.__proto__.getVariablesReversedAsArray.apply(lastOne));
\* console.log(lastOne.__proto__.__proto__.getVariablesAsArray.apply(lastOne))
ApplyFromChain ==
    Statement(12, heap,
        <<Return(Get(heap, heap[ChildInstance].proto, ReverserName),
                 heap, ChildInstance),
          Return(Get(heap, heap[heap[ChildInstance].proto].proto, GetterName),
                 heap, ChildInstance)>>)

\* const theContext = { myFixedProperty: 'fixed', myPassedProperty: 'passed' }
\* (the .js file adds a function of its own to the object)
ContextLiteral ==
    Statement(13,
        ObjectLiteral(heap, ContextObject,
            LET two == WithProp(WithProp(NoProps, "myFixedProperty", Fixed),
                                "myPassedProperty", arg)
            IN  IF variant = JsFile
                THEN WithProp(two, "myFunctionOnTheObjectItself",
                              Fn("myFunctionOnTheObjectItself"))
                ELSE two),
        <<>>)

\* console.log(MyChildConstructor.prototype.getVariablesReversedAsArray.apply(theContext));
\* console.log(MyConstructor.prototype.getVariablesAsArray.apply(theContext))
ApplyToContext ==
    Statement(14, heap,
        <<Return(Get(heap, Prototype("MyChildConstructor"), ReverserName),
                 heap, ContextObject),
          Return(Get(heap, Prototype("MyConstructor"), GetterName), heap, ContextObject)>>)

InitProto ==
    /\ WorkersAt(DemoWorkerCount)
    /\ variant \in ProtoFiles
    /\ ppc = 1
    /\ arg \in {Str(c) : c \in Strings}
    /\ heap = BuiltIns
    /\ out = <<>>

NextProto ==
    \/ NewMyConstructor
    \/ EmptyLiteral
    \/ SetProtoOfLiteral
    \/ ApplyConstructor
    \/ CreateFromPrototype
    \/ CallConstructor
    \/ DefineGetter
    \/ ChainPrototypes
    \/ DefineReverser
    \/ NewChild
    \/ CallOnInstance
    \/ ApplyFromChain
    \/ ContextLiteral
    \/ ApplyToContext

SpecProto == InitProto /\ [][NextProto]_vars

\* ---------------------------------------------------- classes and closures

\* the class/closure part of part_000 (add, multiply) and part_002 (printValue)
Part0Classes == "part_000 classes"
Part2File == "part_002"
ClassFiles == {Part0Classes, Part2File}

MaxValue == 3
MaxCalls == 3
FixedValue == 2
Values == (0 - MaxValue)..MaxValue

\* part_002 calls the second field nonPassedValue
FixedValueName == IF variant = Part2File THEN "nonPassedValue" ELSE "fixedValue"
MethodNames == IF variant = Part2File THEN {"printValue"} ELSE {"add", "multiply"}

\* the local variables of one call of MyClosureScope, kept by its closures
Scope == "MyClosureScope scope"

\* constructor(value) { this.passedValue = value; this.fixedValue = 2; }
MyClass(h, this, value) ==
    SetProp(SetProp(h, this, "passedValue", value), this, FixedValueName, FixedValue)

\* a method returns the heap it leaves, its result and the lines it prints

\* variant of add: the sum is stored back into the instance
addAccumulates(h, this) ==
    [heap |-> SetProp(h, this, "passedValue",
                      Get(h, this, "passedValue") + Get(h, this, FixedValueName)),
     result |-> Get(h, this, "passedValue") + Get(h, this, FixedValueName),
     lines |-> <<>>]

\* add() { return this.passedValue + this.fixedValue; }
add(h, this) ==
    [heap |-> h,
     result |-> Get(h, this, "passedValue") + Get(h, this, FixedValueName),
     lines |-> <<>>]

\* multiply() { return this.passedValue * this.fixedValue; }
multiply(h, this) ==
    [heap |-> h,
     result |-> Get(h, this, "passedValue") * Get(h, this, FixedValueName),
     lines |-> <<>>]

\* printValue() { console.log(this.passedValue * this.nonPassedValue); }
printValue(h, this) ==
    [heap |-> h,
     result |-> Undefined,
     lines |-> <<Get(h, this, "passedValue") * Get(h, this, FixedValueName)>>]

\* the closures of MyClosureScope read the variables of their scope
closureAdd(h) ==
    [heap |-> h,
     result |-> h[Scope].props["passedValue"] + h[Scope].props[FixedValueName],
     lines |-> <<>>]

closureMultiply(h) ==
    [heap |-> h,
     result |-> h[Scope].props["passedValue"] * h[Scope].props[FixedValueName],
     lines |-> <<>>]

closurePrintValue(h) ==
    [heap |-> h,
     result |-> Undefined,
     lines |-> <<h[Scope].props["passedValue"] * h[Scope].props[FixedValueName]>>]

\* function MyClosureScope(value) { const passedValue = value;
\*   const fixedValue = 2; ...; return { add, multiply }; }
MyClosureScope(h, id, value) ==
    ObjectLiteral(
        Alloc(h, Scope,
              Obj("null", WithProp(WithProp(NoProps, "passedValue", value),
                                   FixedValueName, FixedValue))),
        id,
        [m \in MethodNames |-> Fn("closure " \o m)])

\* the objects there are when the script begins: the class and its methods
ClassBuiltIns ==
    [n \in {"Object.prototype", "MyClass.prototype"} |->
        IF n = "Object.prototype"
        THEN Obj("null", WithProp(NoProps, "constructor", Fn("Object")))
        ELSE Obj("Object.prototype",
                 [m \in MethodNames \cup {"constructor"} |->
                     IF m = "constructor" THEN Fn("MyClass") ELSE Fn("MyClass " \o m)])]

\* the function value fn run with `this`
Run(fn, h, this) ==
    CASE fn = Fn("MyClass add") -> add(h, this)
      [] fn = Fn("MyClass multiply") -> multiply(h, this)
      [] fn = Fn("MyClass printValue") -> printValue(h, this)
      [] fn = Fn("closure add") -> closureAdd(h)
      [] fn = Fn("closure multiply") -> closureMultiply(h)
      [] fn = Fn("closure printValue") -> closurePrintValue(h)

\* o.m(): m is looked up from o and run with o as `this`
Send(h, id, m) == Run(Get(h, id, m), h, id)

\* what the console shows of the call: printValue prints by itself, the
\* results of add and multiply are passed to console.log by the script
Shown(id, m, r) ==
    IF m = "printValue" THEN <<<<id, m, r.lines[1]>>>> ELSE <<<<id, m, r.result>>>>

\* const myClassInstance = new MyClass(3)
NewMyClass ==
    /\ variant \in ClassFiles
    /\ ppc = 1
    /\ ppc' = 2
    /\ heap' = MyClass(Alloc(heap, "myClassInstance", Obj("MyClass.prototype", NoProps)),
                       "myClassInstance", arg)
    /\ UNCHANGED <<variant, arg, out>>
    /\ UNCHANGED workerVars

\* const myClosureInstance = MyClosureScope(3)
CallMyClosureScope ==
    /\ variant \in ClassFiles
    /\ ppc = 2
    /\ ppc' = 3
    /\ heap' = MyClosureScope(heap, "myClosureInstance", arg)
    /\ UNCHANGED <<variant, arg, out>>
    /\ UNCHANGED workerVars

\* console.log(id.add()), console.log(id.multiply()), id.printValue()
CallOf(id, m) ==
    /\ variant \in ClassFiles
    /\ ppc = 3
    /\ Len(out) < MaxCalls
    /\ heap' = Send(heap, id, m).heap
    /\ out' = out \o Shown(id, m, Send(heap, id, m))
    /\ UNCHANGED <<variant, ppc, arg>>
    /\ UNCHANGED workerVars

ClassCall == \E m \in MethodNames : CallOf("myClassInstance", m)
ClosureCall == \E m \in MethodNames : CallOf("myClosureInstance", m)

InitClasses ==
    /\ WorkersAt(DemoWorkerCount)
    /\ variant \in ClassFiles
    /\ ppc = 1
    /\ arg \in Values
    /\ heap = ClassBuiltIns
    /\ out = <<>>

NextClasses ==
    \/ NewMyClass
    \/ CallMyClosureScope
    \/ ClassCall
    \/ ClosureCall

SpecClasses == InitClasses /\ [][NextClasses]_vars

\* ------------------------------------------------------------- decorators

DecoratorFile == "typescript-decorators.ts"

MaxGreets == 2
Names == {"World", "JS"}
ArgLists == {<<>>, <<"extra">>}
InstanceIds == {"demo1", "demo2"}

\* the stack of the running functions, the running one last; each frame has
\* the function, the statement it is at, its `this`, its arguments and the
\* result of the call it made last
Frame(fn, this, args) == [fn |-> fn, at |-> 1, this |-> this, args |-> args, result |-> ""]
Top == ppc[Len(ppc)]
Running(fn, n) == variant = DecoratorFile /\ Top.fn = fn /\ Top.at = n
Goto(n) == [ppc EXCEPT ![Len(ppc)].at = n]
ReturnTo(v) ==
    [k \in 1..(Len(ppc) - 1) |-> IF k = Len(ppc) - 1 THEN [ppc[k] EXCEPT !.result = v]
                                 ELSE ppc[k]]

\* what is observed of a run: the console lines, and the calls of the
\* decorated method and of the original method with what they return
Event(kind, who, this, args, text) ==
    [kind |-> kind, who |-> who, this |-> this, args |-> args, text |-> text]
Logged(text) == Event("log", "console", "", <<>>, text)

\* the variables captured by the closures that the decorators return
TraceScope == "TraceExecution scope"
PrefixScope == "LoggerWithPrefix scope"

\* the objects there are when the class has been evaluated, its decorators
\* not yet applied
DecoratorBuiltIns ==
    [n \in {"Object.prototype", "DecoratorDemo.prototype"} |->
        IF n = "Object.prototype"
        THEN Obj("null", WithProp(NoProps, "constructor", Fn("Object")))
        ELSE Obj("Object.prototype",
                 WithProp(WithProp(NoProps, "constructor", Fn("DecoratorDemo")),
                          "greet", Fn("greet")))]

\* function TraceExecution(method, context) {
\*   const methodName = String(context.name); return function (...args) {...} }
TraceExecution(h, method, name) ==
    Alloc(h, TraceScope,
          Obj("null", WithProp(WithProp(NoProps, "method", method), "methodName", name)))

\* function LoggerWithPrefix(prefix) { return function (constructor) {
\*   constructor.prototype.logWithPrefix = function (logMessage) {...} } }
LoggerWithPrefix(h, prefix, prototype) ==
    SetProp(Alloc(h, PrefixScope, Obj("null", WithProp(NoProps, "prefix", prefix))),
            prototype, "logWithPrefix", Fn("logWithPrefix"))

\* function Logger(constructor) { constructor.prototype.log = function ... }
Logger(h, prototype) == SetProp(h, prototype, "log", Fn("log"))

\* the line that the function found under `name` from `this` prints
PrintedBy(h, this, name, logMessage) ==
    CASE Get(h, this, name) = Fn("log") -> Logged(logMessage)
      [] Get(h, this, name) = Fn("logWithPrefix") ->
             Logged(h[PrefixScope].props["prefix"] \o ": " \o logMessage)

\* @TraceExecution greet(): greet becomes the function TraceExecution returns
ApplyTraceExecution ==
    /\ Running("script", 1)
    /\ ppc' = Goto(2)
    /\ heap' = SetProp(TraceExecution(heap, Get(heap, "DecoratorDemo.prototype", "greet"),
                                      "greet"),
                       "DecoratorDemo.prototype", "greet", Fn("wrapper"))
    /\ UNCHANGED <<variant, arg, out>>
    /\ UNCHANGED workerVars

\* @LoggerWithPrefix('MyClass'), the lower class decorator, is applied first
ApplyLoggerWithPrefix ==
    /\ Running("script", 2)
    /\ ppc' = Goto(3)
    /\ heap' = LoggerWithPrefix(heap, "MyClass", "DecoratorDemo.prototype")
    /\ UNCHANGED <<variant, arg, out>>
    /\ UNCHANGED workerVars

\* @Logger
ApplyLogger ==
    /\ Running("script", 3)
    /\ ppc' = Goto(4)
    /\ heap' = Logger(heap, "DecoratorDemo.prototype")
    /\ UNCHANGED <<variant, arg, out>>
    /\ UNCHANGED workerVars

Greets == Len(SelectSeq(out, LAMBDA e : e.kind = "call"))

\* new DecoratorDemo(name): constructor(name) { this.name = name; }
NewDecoratorDemo ==
    /\ Running("script", 4)
    /\ \E id \in InstanceIds \ DOMAIN heap : \E name \in Names :
          heap' = SetProp(Alloc(heap, id, Obj("DecoratorDemo.prototype", NoProps)),
                          id, "name", name)
    /\ UNCHANGED <<variant, ppc, arg, out>>
    /\ UNCHANGED workerVars

\* o.greet(...args): the function found under greet runs with o as `this`
CallGreet ==
    /\ Running("script", 4)
    /\ Greets < MaxGreets
    /\ \E id \in InstanceIds \cap DOMAIN heap : \E args \in ArgLists :
          /\ Get(heap, id, "greet") = Fn("wrapper")
          /\ ppc' = Append(ppc, Frame("wrapper", id, args))
          /\ out' = Append(out, Event("call", "greet", id, args, ""))
    /\ UNCHANGED <<variant, arg, heap>>
    /\ UNCHANGED workerVars

\* console.log(`Start: ${methodName}`)
WrapperLogStart ==
    /\ Running("wrapper", 1)
    /\ ppc' = Goto(2)
    /\ out' = Append(out, Logged("Start: " \o heap[TraceScope].props["methodName"]))
    /\ UNCHANGED <<variant, arg, heap>>
    /\ UNCHANGED workerVars

\* const result = method.apply(this, args): the original method is entered
WrapperApply ==
    /\ Running("wrapper", 2)
    /\ heap[TraceScope].props["method"] = Fn("greet")
    /\ ppc' = Append(Goto(3), Frame("greet", Top.this, Top.args))
    /\ out' = Append(out, Event("enter", "greet", Top.this, Top.args, ""))
    /\ UNCHANGED <<variant, arg, heap>>
    /\ UNCHANGED workerVars

\* this.log(`Hello ${this.name}!`)
GreetLog ==
    /\ Running("greet", 1)
    /\ ppc' = Goto(2)
    /\ out' = Append(out, PrintedBy(heap, Top.this, "log",
                                    "Hello " \o Get(heap, Top.this, "name") \o "!"))
    /\ UNCHANGED <<variant, arg, heap>>
    /\ UNCHANGED workerVars

\* this.logWithPrefix(`Hello ${this.name} again!`)
GreetLogWithPrefix ==
    /\ Running("greet", 2)
    /\ ppc' = Goto(3)
    /\ out' = Append(out, PrintedBy(heap, Top.this, "logWithPrefix",
                                    "Hello " \o Get(heap, Top.this, "name") \o " again!"))
    /\ UNCHANGED <<variant, arg, heap>>
    /\ UNCHANGED workerVars

\* return this.name
GreetReturn ==
    /\ Running("greet", 3)
    /\ ppc' = ReturnTo(Get(heap, Top.this, "name"))
    /\ out' = Append(out, Event("exit", "greet", Top.this, Top.args,
                                Get(heap, Top.this, "name")))
    /\ UNCHANGED <<variant, arg, heap>>
    /\ UNCHANGED workerVars

\* console.log(`End: ${methodName}, Returning: ${result}`)
WrapperLogEnd ==
    /\ Running("wrapper", 3)
    /\ ppc' = Goto(4)
    /\ out' = Append(out, Logged("End: " \o heap[TraceScope].props["methodName"]
                                 \o ", Returning: " \o Top.result))
    /\ UNCHANGED <<variant, arg, heap>>
    /\ UNCHANGED workerVars

\* variant of WrapperReturn: the wrapper returns the name of the method
WrapperReturnsName ==
    /\ Running("wrapper", 4)
    /\ ppc' = ReturnTo(heap[TraceScope].props["methodName"])
    /\ out' = Append(out, Event("return", "greet", Top.this, Top.args,
                                heap[TraceScope].props["methodName"]))
    /\ UNCHANGED <<variant, arg, heap>>
    /\ UNCHANGED workerVars

\* return result
WrapperReturn ==
    /\ Running("wrapper", 4)
    /\ ppc' = ReturnTo(Top.result)
    /\ out' = Append(out, Event("return", "greet", Top.this, Top.args, Top.result))
    /\ UNCHANGED <<variant, arg, heap>>
    /\ UNCHANGED workerVars

InitDecorators ==
    /\ WorkersAt(DemoWorkerCount)
    /\ variant = DecoratorFile
    /\ ppc = <<Frame("script", "", <<>>)>>
    /\ arg = <<>>
    /\ heap = DecoratorBuiltIns
    /\ out = <<>>

NextDecorators ==
    \/ ApplyTraceExecution
    \/ ApplyLoggerWithPrefix
    \/ ApplyLogger
    \/ NewDecoratorDemo
    \/ CallGreet
    \/ WrapperLogStart
    \/ WrapperApply
    \/ GreetLog
    \/ GreetLogWithPrefix
    \/ GreetReturn
    \/ WrapperLogEnd
    \/ WrapperReturn

SpecDecorators == InitDecorators /\ [][NextDecorators]_vars

\* --------------------------------------- programming without return values

\* the printers of part_000 and their earlier form, which carries the street
\* only and whose methods return nothing
Part0Printers == "part_000 printers"
TsFile == "programming-without-return-values.ts"
PrinterFiles == {Part0Printers, TsFile}

Texts == {"Sherlock Holmes", "221B Baker Street", "London"}
Addresses == Texts \X Texts \X Texts

\* the fields a printer is given and what a method hands back
Carried == IF variant = TsFile THEN {"street"} ELSE {"name", "street", "city"}
Self(this) == IF variant = TsFile THEN Undefined ELSE this

\* constructor(name, street, city) of the three address classes
Address(h, id, name, street, city) ==
    ObjectLiteral(h, id,
        WithProp(WithProp(WithProp(NoProps, "name", name), "street", street),
                 "city", city))

\* the text of console.log(name + '\n' + street + '\n' + city)
ThreeLines(name, street, city) ==
    IF variant = TsFile THEN street ELSE name \o "\n" \o street \o "\n" \o city

\* StreetPrinterTraditional.print reads the address through its fields
printTraditional(h, this) ==
    LET address == Get(h, this, "address")
    IN  [heap |-> h,
         result |-> Undefined,
         lines |-> <<ThreeLines(Get(h, address, "name"), Get(h, address, "street"),
                                Get(h, address, "city"))>>]

\* setName(value) { this.name = value; return this; }
setName(h, this, value) ==
    [heap |-> SetProp(h, this, "name", value), result |-> Self(this), lines |-> <<>>]

\* setStreet(value) { this.street = value; return this; }
setStreet(h, this, value) ==
    [heap |-> SetProp(h, this, "street", value), result |-> Self(this), lines |-> <<>>]

\* setCity(value) { this.city = value; return this; }
setCity(h, this, value) ==
    [heap |-> SetProp(h, this, "city", value), result |-> Self(this), lines |-> <<>>]

\* variant of setValues: name and city change places
setValuesSwapped(h, this, name, street, city) ==
    [heap |-> SetProp(SetProp(SetProp(h, this, "name", city), this, "street", street),
                      this, "city", name),
     result |-> Self(this),
     lines |-> <<>>]

\* setValues(name, street, city) { this.name = name; this.street = street;
\*                                 this.city = city; return this; }
setValues(h, this, name, street, city) ==
    [heap |-> SetProp(SetProp(SetProp(h, this, "name", name), this, "street", street),
                      this, "city", city),
     result |-> Self(this),
     lines |-> <<>>]

\* print() of approaches 1 and 2 reads the printer's own fields
printApproach(h, this) ==
    [heap |-> h,
     result |-> Self(this),
     lines |-> <<ThreeLines(IF variant = TsFile THEN "" ELSE Get(h, this, "name"),
                            Get(h, this, "street"),
                            IF variant = TsFile THEN "" ELSE Get(h, this, "city"))>>]

\* AddressApproach1.setAddressValuesOn(object) {
\*   object.setName(this.name).setStreet(this.street).setCity(this.city);
\*   return this; }
\* and, in the earlier form, setStreetOn(object) { object.setStreet(this.street); }
setAddressValuesOn1(h, this, object) ==
    IF variant = TsFile
    THEN [heap |-> setStreet(h, object, Get(h, this, "street")).heap,
          result |-> Undefined,
          lines |-> <<>>]
    ELSE LET named == setName(h, object, Get(h, this, "name"))
             streeted == setStreet(named.heap, named.result, Get(h, this, "street"))
             citied == setCity(streeted.heap, streeted.result, Get(h, this, "city"))
         IN  [heap |-> citied.heap, result |-> this, lines |-> <<>>]

\* callback.call(object, ...): the function value runs with object as `this`
CallBack(callback, h, object, name, street, city) ==
    CASE callback = Fn("setValues") -> setValues(h, object, name, street, city)
      [] callback = Fn("setStreet") -> setStreet(h, object, street)

\* AddressApproach2.setAddressValuesOn(object, callback) {
\*   callback.call(object, this.name, this.street, this.city); return this; }
\* and, in the earlier form, setStreetOn(object, callback) {
\*   callback.call(object, this.street); }
setAddressValuesOn2(h, this, object, callback) ==
    [heap |-> CallBack(callback, h, object, Get(h, this, "name"),
                       Get(h, this, "street"), Get(h, this, "city")).heap,
     result |-> Self(this),
     lines |-> <<>>]

\* the method a printer of approach 2 passes as the callback
SetterOf2 == IF variant = TsFile THEN Fn("setStreet") ELSE Fn("setValues")

\* constructor(address) { address.setAddressValuesOn(this); }
StreetPrinterApproach1(h, this, address) == setAddressValuesOn1(h, address, this).heap

\* constructor(address) { address.setAddressValuesOn(this, this.setValues); }
StreetPrinterApproach2(h, this, address) ==
    setAddressValuesOn2(h, address, this, SetterOf2).heap

\* one statement of the script
PrinterStatement(n, h, lines) ==
    /\ variant \in PrinterFiles
    /\ ppc = n
    /\ ppc' = n + 1
    /\ heap' = h
    /\ out' = out \o lines
    /\ UNCHANGED <<variant, arg>>
    /\ UNCHANGED workerVars

\* const addressTraditional = new AddressTraditional(name, street, city)
NewAddressTraditional ==
    PrinterStatement(1, Address(heap, "addressTraditional", arg[1], arg[2], arg[3]), <<>>)

\* const printerTraditional = new StreetPrinterTraditional(addressTraditional)
NewPrinterTraditional ==
    PrinterStatement(2,
        ObjectLiteral(heap, "printerTraditional",
                      WithProp(NoProps, "address", "addressTraditional")),
        <<>>)

\* printerTraditional.print()
PrintTraditional ==
    PrinterStatement(3, heap, printTraditional(heap, "printerTraditional").lines)

\* const addressApproach1 = new AddressApproach1(name, street, city)
NewAddressApproach1 ==
    PrinterStatement(4, Address(heap, "addressApproach1", arg[1], arg[2], arg[3]), <<>>)

\* const printerApproach1 = new StreetPrinterApproach1(addressApproach1)
NewPrinterApproach1 ==
    PrinterStatement(5,
        StreetPrinterApproach1(ObjectLiteral(heap, "printerApproach1", NoProps),
                               "printerApproach1", "addressApproach1"),
        <<>>)

\* printerApproach1.print()
PrintApproach1 ==
    PrinterStatement(6, heap, printApproach(heap, "printerApproach1").lines)

\* const addressApproach2 = new AddressApproach2(name, street, city)
NewAddressApproach2 ==
    PrinterStatement(7, Address(heap, "addressApproach2", arg[1], arg[2], arg[3]), <<>>)

\* const printerApproach2 = new StreetPrinterApproach2(addressApproach2)
NewPrinterApproach2 ==
    PrinterStatement(8,
        StreetPrinterApproach2(ObjectLiteral(heap, "printerApproach2", NoProps),
                               "printerApproach2", "addressApproach2"),
        <<>>)

\* printerApproach2.print()
PrintApproach2 ==
    PrinterStatement(9, heap, printApproach(heap, "printerApproach2").lines)

InitPrinters ==
    /\ WorkersAt(DemoWorkerCount)
    /\ variant \in PrinterFiles
    /\ ppc = 1
    /\ arg \in Addresses
    /\ heap = [n \in {"Object.prototype"} |->
                  Obj("null", WithProp(NoProps, "constructor", Fn("Object")))]
    /\ out = <<>>

NextPrinters ==
    \/ NewAddressTraditional
    \/ NewPrinterTraditional
    \/ PrintTraditional
    \/ NewAddressApproach1
    \/ NewPrinterApproach1
    \/ PrintApproach1
    \/ NewAddressApproach2
    \/ NewPrinterApproach2
    \/ PrintApproach2

SpecPrinters == InitPrinters /\ [][NextPrinters]_vars

\* ------------------------------------------------------------ observations

\* the identifiers (workerData) of the Workers created by invocation r
Ids(r) == {workers[r][k].workerData : k \in 1..Len(workers[r])}

\* the 'Started:' lines of log[r] that carry identifier d
StartedCount(r, d) == CountLines(r, StartedLine(d))

IsStartedLine(line) == Len(line) = 2 /\ line[1] = "Started: "

\* the identifiers of the 'Started:' lines of log[r], in the order written
StartedOrder(r) ==
    LET lines == SelectSeq(log[r], IsStartedLine)
    IN  [n \in 1..Len(lines) |-> lines[n][2]]

\* the host keeps a process running while its main script runs, while a
\* timer is armed, or while one of its worker threads has not exited
ProcessAlive(r) ==
    \/ pc[r] = "loop"
    \/ timer[r] = "Ticking"
    \/ \E k \in 1..Len(workers[r]) : workers[r][k].state \in {"Spawning", "Running"}

AllRunning(r) ==
    /\ Len(workers[r]) = workerCount
    /\ \A k \in 1..Len(workers[r]) : workers[r][k].state = "Running"

\* ------------------------------------------------------------------ claims

\* C1: at most workerCount Workers exist, their identifiers are pairwise
\* distinct integers of 0..workerCount-1, no two 'Started:' lines of the log
\* carry the same identifier; once the spawn loop has finished there are
\* exactly workerCount Workers and their identifiers are 0..workerCount-1.
Thm_C1 ==
    /\ Len(workers[1]) <= workerCount
    /\ \A k \in 1..Len(workers[1]) : workers[1][k].workerData \in 0..(workerCount - 1)
    /\ \A j, k \in 1..Len(workers[1]) :
          j # k => workers[1][j].workerData # workers[1][k].workerData
    /\ \A m, n \in 1..Len(log[1]) :
          (m # n /\ IsStartedLine(log[1][m]) /\ IsStartedLine(log[1][n]))
              => log[1][m][2] # log[1][n][2]
    /\ pc[1] = "done" =>
          /\ Len(workers[1]) = workerCount
          /\ Ids(1) = 0..(workerCount - 1)

Wit_C1 ==
    /\ workerCount >= 2
    /\ pc[1] = "done"
    /\ AllRunning(1)
    /\ Len(StartedOrder(1)) = workerCount

\* C2: under fair scheduling of the coordinator and of every worker the log
\* eventually holds the line 'Started: k' exactly once for each k of
\* 0..workerCount-1, and that stays so for ever.
AllStartedOnce == \A d \in 0..(workerCount - 1) : StartedCount(1, d) = 1

Thm_C2 == <>[]AllStartedOnce

Wit_C2 == workerCount >= 2 /\ AllStartedOnce /\ AliveCount(1) >= 1

\* C3: the process is alive in every reachable state: once the main script
\* is done the timer is armed and stays armed, and no Worker has left its
\* loop.
Thm_C3 ==
    \A r \in Runs :
        pc[r] # "off" =>
            /\ ProcessAlive(r)
            /\ pc[r] = "done" => timer[r] = "Ticking"
            /\ \A k \in 1..Len(workers[r]) :
                  workers[r][k].state \in {"Spawning", "Running"}

Wit_C3 == pc[1] = "done" /\ AllRunning(1) /\ AliveCount(1) = MaxTicks

\* C4: the timer, once Ticking, stays Ticking, and under fairness of the
\* coordinator alone every 'Still alive!' line is followed by another one
\* (up to MaxTicks lines), whatever the workers do.
TimerStaysTicking ==
    \A r \in Runs : timer[r] = "Ticking" => timer'[r] = "Ticking"

Thm_C4 ==
    /\ [][TimerStaysTicking]_vars
    /\ \A n \in 0..(MaxTicks - 1) :
          (timer[1] = "Ticking" /\ AliveCount(1) = n) ~> (AliveCount(1) = n + 1)

Wit_C4 ==
    /\ timer[1] = "Ticking"
    /\ AliveCount(1) = MaxTicks
    /\ \E k \in 1..Len(workers[1]) : workers[1][k].state = "Running"
    /\ \E k \in 1..Len(workers[1]) : workers[1][k].state = "Spawning"

\* C5: the k-th spawn request (from 0) carries identifier k, and whichever
\* Workers are still Spawning, any one of them may be the next to print its
\* 'Started:' line: the order of the lines is unconstrained.
Thm_C5 ==
    \A k \in 1..Len(workers[1]) :
        /\ workers[1][k].workerData = k - 1
        /\ workers[1][k].state = "Spawning" => ENABLED WorkerStart(1, k)

\* the reverse of the spawn order is one of the orders reached
Wit_C5 ==
    /\ workerCount = MaxWorkerCount
    /\ Len(StartedOrder(1)) = workerCount
    /\ \A n \in 1..workerCount : StartedOrder(1)[n] = workerCount - n

\* C6 as stated: in the source's configuration (8 Workers) no 'Still alive!'
\* line is written before all 8 'Started:' lines have been written.
AliveAfterAllStarted ==
    \A n \in 1..Len(log[1]) :
        log[1][n] = AliveLine =>
            \A d \in 0..(DemoWorkerCount - 1) :
                \E m \in 1..(n - 1) : log[1][m] = StartedLine(d)

Orig_C6 == workerCount = DemoWorkerCount => AliveAfterAllStarted

\* C6, amended: with 8 Workers the 'Started:' lines carry identifiers of
\* 0..7, each at most once, and all 8 of them once every Worker is Running;
\* a 'Still alive!' line is written only after all 8 Workers were created,
\* and may come before any of the 'Started:' lines.
Thm_C6 ==
    workerCount = DemoWorkerCount =>
        /\ \A n \in 1..Len(log[1]) :
              IsStartedLine(log[1][n]) => log[1][n][2] \in 0..(DemoWorkerCount - 1)
        /\ \A d \in 0..(DemoWorkerCount - 1) : StartedCount(1, d) <= 1
        /\ AllRunning(1) =>
              \A d \in 0..(DemoWorkerCount - 1) : StartedCount(1, d) = 1
        /\ AliveCount(1) > 0 => Len(workers[1]) = DemoWorkerCount

\* all 8 lines written, every one of them after the first 'Still alive!'
Wit_C6 ==
    /\ workerCount = DemoWorkerCount
    /\ AllRunning(1)
    /\ Len(log[1]) = DemoWorkerCount + 1
    /\ log[1][1] = AliveLine

\* C7: a Worker is Spawning or Running, it is created Spawning, the only
\* change of state is Spawning -> Running, and a Running Worker stays
\* Running.
WorkerStates ==
    \A r \in Runs : \A k \in 1..Len(workers[r]) :
        workers[r][k].state \in {"Spawning", "Running"}

WorkerTransitions ==
    \A r \in Runs :
        /\ Len(workers'[r]) >= Len(workers[r])
        /\ \A k \in 1..Len(workers'[r]) :
              IF k > Len(workers[r])
              THEN workers'[r][k].state = "Spawning"
              ELSE \/ workers'[r][k].state = workers[r][k].state
                   \/ /\ workers[r][k].state = "Spawning"
                      /\ workers'[r][k].state = "Running"

Thm_C7 == []WorkerStates /\ [][WorkerTransitions]_vars

Wit_C7 ==
    /\ \E k \in 1..Len(workers[1]) : workers[1][k].state = "Running"
    /\ \E k \in 1..Len(workers[1]) : workers[1][k].state = "Spawning"
    /\ pc[1] = "done"

\* C8: on the discrete clock that starts when the timer is installed, the
\* n-th 'Still alive!' line is written at time n * Period: none is skipped
\* and none comes twice, so a window of length T >= Period that has passed
\* holds at least one line and between T \div Period - 1 and
\* T \div Period + 1 of them.
TickPending(r) ==
    timer[r] = "Ticking" /\ now[r] = nextFire[r] /\ AliveCount(r) < MaxTicks

WindowPoints(r) == {q * WindowStep : q \in 0..(now[r] \div WindowStep)}

TicksIn(r, a, b) ==
    Cardinality({n \in 1..Len(tickAt[r]) : a <= tickAt[r][n] /\ tickAt[r][n] <= b})

WindowPassed(r, b) == b < now[r] \/ (b = now[r] /\ ~TickPending(r))

Carriers(d) ==
    {rk \in Runs \X (1..workerCount) :
        /\ rk[2] <= Len(workers[rk[1]])
        /\ workers[rk[1]][rk[2]].workerData = d}

Thm_C9 ==
    (pc[1] = "done" /\ pc[2] = "done") =>
        /\ Len(workers[1]) + Len(workers[2]) = 2 * workerCount
        /\ \A d \in 0..(workerCount - 1) :
              /\ Cardinality(Carriers(d)) = 2
              /\ {rk[1] : rk \in Carriers(d)} = Runs
        /\ Ids(1) = Ids(2)

Wit_C9 ==
    /\ workerCount >= 2
    /\ pc[1] = "done"
    /\ pc[2] = "done"
    /\ AllRunning(1)
    /\ AllRunning(2)

\* C10: the timer is installed, and a 'Still alive!' line written, only
\* when all workerCount Workers have been created, and a run of the timer
\* callback writes exactly one line, 'Still alive!'.
TimerAfterSpawns ==
    (timer[1] # "Idle" \/ AliveCount(1) > 0) =>
        /\ Len(workers[1]) = workerCount
        /\ i[1] = workerCount

OneLinePerTick ==
    /\ tickAt'[1] # tickAt[1] =>
          /\ Len(tickAt'[1]) = Len(tickAt[1]) + 1
          /\ log'[1] = Append(log[1], AliveLine)
    /\ AliveCount(1)' # AliveCount(1) => tickAt'[1] # tickAt[1]

Thm_C10 == []TimerAfterSpawns /\ [][OneLinePerTick]_vars

Wit_C10 ==
    /\ workerCount >= 2
    /\ timer[1] = "Ticking"
    /\ AliveCount(1) = MaxTicks
    /\ \A k \in 1..Len(workers[1]) : workers[1][k].state = "Spawning"

\* C11: a Worker writes its 'Started:' line when it begins and never again:
\* a Spawning Worker has written nothing, a Running one exactly its one
\* line, so the line comes before the loop; a step that starts no Worker and
\* is no run of the timer callback (a loop iteration among them) writes no
\* line, and a step that starts Worker k appends exactly the 'Started:' line
\* of k.
StartedBeforeLoop ==
    /\ \A k \in 1..Len(workers[1]) :
          StartedCount(1, workers[1][k].workerData) =
              IF workers[1][k].state = "Running" THEN 1 ELSE 0
    /\ Len(log[1]) =
          Cardinality({k \in 1..Len(workers[1]) : workers[1][k].state = "Running"})
              + Len(tickAt[1])

StartsWorker(r, k) ==
    /\ k \in 1..Len(workers[r])
    /\ workers[r][k].state = "Spawning"
    /\ workers'[r][k].state = "Running"

LoopWritesNothing ==
    /\ ((\A k \in 1..Len(workers[1]) : ~StartsWorker(1, k)) /\ tickAt'[1] = tickAt[1])
          => log'[1] = log[1]
    /\ \A k \in 1..Len(workers[1]) :
          StartsWorker(1, k) =>
              log'[1] = Append(log[1], StartedLine(workers[1][k].workerData))

Thm_C11 == []StartedBeforeLoop /\ [][LoopWritesNothing]_vars

Wit_C11 ==
    /\ workerCount >= 2
    /\ AllRunning(1)
    /\ AliveCount(1) = MaxTicks
    /\ log[1][Len(log[1])] = AliveLine

\* C12: a step in which Worker k begins leaves every other Worker, the
\* identifier of k, the main thread's loop and its timer as they were; it
\* changes the state of k and appends one line to the log, nothing else.
WorkerFrame ==
    \A r \in Runs : \A k \in 1..Len(workers[r]) :
        StartsWorker(r, k) =>
            /\ Len(workers'[r]) = Len(workers[r])
            /\ \A j \in 1..Len(workers[r]) : j # k => workers'[r][j] = workers[r][j]
            /\ workers'[r][k].workerData = workers[r][k].workerData
            /\ \A q \in Runs : q # r => workers'[q] = workers[q] /\ log'[q] = log[q]
            /\ Len(log'[r]) = Len(log[r]) + 1
            /\ SubSeq(log'[r], 1, Len(log[r])) = log[r]
            /\ UNCHANGED <<workerCount, pc, i, timer, now, nextFire, tickAt>>
            /\ UNCHANGED objVars

Thm_C12 == [][WorkerFrame]_vars

Wit_C12 ==
    /\ workerCount = MaxWorkerCount
    /\ pc[1] = "done"
    /\ workers[1][1].state = "Spawning"
    /\ workers[1][2].state = "Running"
    /\ workers[1][3].state = "Spawning"
    /\ AliveCount(1) = 1

\* C13: `new MyConstructor(x)`, an empty object given the constructor's
\* prototype as __proto__ and then MyConstructor.apply(obj, [x]), and
\* Object.create(MyConstructor.prototype) followed by
\* MyConstructor.call(obj, x) end as the same object: own properties
\* myFixedProperty = 'fixed' and myPassedProperty = x, __proto__ the
\* constructor's prototype, and `constructor` resolving to MyConstructor.
ThreeWays == {"myInstanceWithNew", "myInstanceWithoutNew", "myInstanceWithoutNew2"}

Thm_C13 ==
    (variant \in ProtoFiles /\ ppc > 6) =>
        /\ \A a \in ThreeWays : \A b \in ThreeWays : heap[a] = heap[b]
        /\ \A o \in ThreeWays :
              /\ DOMAIN heap[o].props = {"myFixedProperty", "myPassedProperty"}
              /\ heap[o].props["myFixedProperty"] = Fixed
              /\ heap[o].props["myPassedProperty"] = arg
              /\ heap[o].proto = Prototype("MyConstructor")
              /\ Get(heap, o, "constructor") = Fn("MyConstructor")

Wit_C13 == variant = Part1File /\ ppc = 7 /\ arg = Str(<<"a", "b">>)

\* C16 as stated: for o = new MyChildConstructor(x) neither method is an own
\* property of o, the reversing method is an own property of o's prototype
\* and the plain getter of the prototype of that prototype, and o.m()
\* returns what the function taken from that link returns when applied to
\* o, and what it returns when applied to a plain object with the same two
\* properties.
FoundWhereStated ==
    /\ ~HasOwn(heap, ChildInstance, GetterName)
    /\ ~HasOwn(heap, ChildInstance, ReverserName)
    /\ HasOwn(heap, heap[ChildInstance].proto, ReverserName)
    /\ HasOwn(heap, heap[heap[ChildInstance].proto].proto, GetterName)

SameResults ==
    /\ Len(out) = 6
    /\ out[1] = <<Fixed, arg>>
    /\ out[2] = <<SplitReverseJoin(Fixed), SplitReverseJoin(arg)>>
    /\ out[3] = out[2] /\ out[4] = out[1]
    /\ out[5] = out[2] /\ out[6] = out[1]

Orig_C16 == (variant \in ProtoFiles /\ ppc = 15) => (FoundWhereStated /\ SameResults)

\* C14: for every value v the object of `new MyClass(v)` and the object of
\* `MyClosureScope(v)` return v + 2 from add() and v * 2 from multiply()
\* (printValue of part_002 prints v * 2 for both), whatever calls were made
\* before, and no call changes the instance or the captured variables.
Expected(m) == IF m = "add" THEN arg + FixedValue ELSE arg * FixedValue

SameAnswers ==
    (variant \in ClassFiles /\ ppc = 3) =>
        /\ \A m \in MethodNames \ {"printValue"} :
              /\ Send(heap, "myClassInstance", m).result = Expected(m)
              /\ Send(heap, "myClosureInstance", m).result = Expected(m)
        /\ \A m \in MethodNames \cap {"printValue"} :
              /\ Send(heap, "myClassInstance", m).lines = <<Expected(m)>>
              /\ Send(heap, "myClosureInstance", m).lines = <<Expected(m)>>
        /\ \A n \in 1..Len(out) : out[n][3] = Expected(out[n][2])

CallsKeepState == (variant \in ClassFiles /\ ppc = 3) => heap' = heap

Thm_C14 == []SameAnswers /\ [][CallsKeepState]_vars

Wit_C14 ==
    /\ variant = Part0Classes
    /\ arg = 3
    /\ Len(out) = MaxCalls
    /\ out[1] = <<"myClassInstance", "add", 5>>
    /\ out[2] = <<"myClosureInstance", "multiply", 6>>
    /\ out[3] = <<"myClosureInstance", "add", 5>>

\* C15: every call of the decorated greet shows, in this order and nothing
\* else: 'Start: greet', the original method entered once with the caller's
\* `this` and arguments, the two lines of the method, the method's return,
\* 'End: greet, Returning: <result>', and the return of that same result to
\* the caller; for an instance named "World" the console lines of the call
\* are 'Start: greet', 'Hello World!', 'MyClass: Hello World again!',
\* 'End: greet, Returning: World'.
TraceOf(this, args, name) ==
    <<Event("call", "greet", this, args, ""),
      Logged("Start: greet"),
      Event("enter", "greet", this, args, ""),
      Logged("Hello " \o name \o "!"),
      Logged("MyClass: Hello " \o name \o " again!"),
      Event("exit", "greet", this, args, name),
      Logged("End: greet, Returning: " \o name),
      Event("return", "greet", this, args, name)>>

\* the number of events of one call
CallLength == Len(TraceOf("", <<>>, ""))

WorldLines ==
    <<"Start: greet", "Hello World!", "MyClass: Hello World again!",
      "End: greet, Returning: World">>

ConsoleOf(events) ==
    LET logs == SelectSeq(events, LAMBDA e : e.kind = "log")
    IN  [n \in 1..Len(logs) |-> logs[n].text]

Thm_C15 ==
    variant = DecoratorFile =>
        \A n \in 1..Len(out) :
            LET c == n - ((n - 1) % CallLength)
            IN  /\ out[c].kind = "call"
                /\ out[c].this \in DOMAIN heap
                /\ out[n] = TraceOf(out[c].this, out[c].args,
                                    heap[out[c].this].props["name"])[n - c + 1]
                /\ (n = c + CallLength - 1 /\ heap[out[c].this].props["name"] = "World")
                      => ConsoleOf(SubSeq(out, c, n)) = WorldLines

Wit_C15 ==
    /\ variant = DecoratorFile
    /\ Len(out) = 2 * CallLength
    /\ out[1].this # out[CallLength + 1].this
    /\ out[1].args # out[CallLength + 1].args
    /\ heap[out[1].this].props["name"] # heap[out[CallLength + 1].this].props["name"]
    /\ heap[out[CallLength + 1].this].props["name"] = "World"
    /\ ConsoleOf(SubSeq(out, CallLength + 1, 2 * CallLength)) = WorldLines

\* C17: for every address (name, street, city), once built,
\* StreetPrinterApproach1 and StreetPrinterApproach2 hold exactly the name,
\* street and city of their address, the three printers print the same three
\* lines, those StreetPrinterTraditional reads from the address, and every
\* method of approaches 1 and 2 returns the instance it was called on. (In
\* programming-without-return-values.ts the three printers carry and print
\* the street alone.)
Holds(printer, address) ==
    /\ DOMAIN heap[printer].props = Carried
    /\ \A f \in Carried : heap[printer].props[f] = heap[address].props[f]
    /\ heap[address].props = [f \in {"name", "street", "city"} |->
                                 CASE f = "name" -> arg[1]
                                   [] f = "street" -> arg[2]
                                   [] f = "city" -> arg[3]]

ReturnsThis1 ==
    /\ setAddressValuesOn1(heap, "addressApproach1", "printerApproach1").result
           = "addressApproach1"
    /\ printApproach(heap, "printerApproach1").result = "printerApproach1"
    /\ \A v \in Texts :
          /\ setName(heap, "printerApproach1", v).result = "printerApproach1"
          /\ setStreet(heap, "printerApproach1", v).result = "printerApproach1"
          /\ setCity(heap, "printerApproach1", v).result = "printerApproach1"

ReturnsThis2 ==
    /\ setAddressValuesOn2(heap, "addressApproach2", "printerApproach2",
                           SetterOf2).result = "addressApproach2"
    /\ printApproach(heap, "printerApproach2").result = "printerApproach2"
    /\ \A a \in Addresses :
          setValues(heap, "printerApproach2", a[1], a[2], a[3]).result
              = "printerApproach2"

Thm_C17 ==
    variant \in PrinterFiles =>
        /\ ppc > 5 => Holds("printerApproach1", "addressApproach1")
        /\ ppc > 8 => Holds("printerApproach2", "addressApproach2")
        /\ (ppc > 5 /\ variant = Part0Printers) => ReturnsThis1
        /\ (ppc > 8 /\ variant = Part0Printers) => ReturnsThis2
        /\ Len(out) = (ppc - 1) \div 3
        /\ \A n \in 1..Len(out) :
              out[n] = IF variant = TsFile THEN arg[2]
                       ELSE arg[1] \o "\n" \o arg[2] \o "\n" \o arg[3]

Wit_C17 ==
    /\ variant = Part0Printers
    /\ ppc = 10
    /\ arg = <<"Sherlock Holmes", "221B Baker Street", "London">>
    /\ Len(out) = 3
    /\ out[1] = out[2]
    /\ out[2] = out[3]

====
